---- MODULE Spec2Model ----
(***************************************************************************)
(* A model of the cooperative coroutine scheduler of src/coroutine.c: one  *)
(* worker thread (coroutine_thread_routine) draining a ready list, and     *)
(* other threads calling coroutine_start / coroutine_signal /              *)
(* coroutine_cancel / coroutine_deref / coroutine_thread_stop.             *)
(*                                                                         *)
(* Atomicity: every action is one access to shared memory (an atomic_t     *)
(* operation, a plain load or store of co->running / thread->stopping),    *)
(* the body of one critical section of thread->co_list_lock together with  *)
(* its spin_lock_irqsave, or the matching spin_unlock_irqrestore.  Code    *)
(* that runs between two such accesses on the same thread is folded into   *)
(* the later action.                                                       *)
(***************************************************************************)
EXTENDS Integers, Sequences, FiniteSets, TLC

\* ---------------------------------------------------------------- bounds
\* Number of coroutine_signal calls an external producer thread posts.
MaxSignals == 2
\* K of the producer-consumer scenario, N of the ping-pong scenario.
MaxIter == 2
\* How far below zero the model follows co->signaled.
MaxUnderflow == 2

\* -------------------------------------------------------------- universe
NULL == "null"
Cos == {"A", "B"}
Ext == {"e1", "e2"}
Worker == "w"
Threads == Ext \cup {Worker}

VARIABLES
    \* struct coroutine
    running, ref_count, signaled, fun, arg, ret, ctx, freed, stack_ok,
    \* the user function's private data (a loop counter)
    x,
    \* struct coroutine_thread; lock is the holder of co_list_lock (or NULL)
    co_list, tsignaled, stopping, lock,
    \* coroutine_thread_routine: position and the locals co, next_co
    wpc, wco, wnext,
    \* a coroutine_signal call in progress on each thread
    spc, sco,
    \* external threads: the calls each makes, and the next one
    prog, epc,
    \* coroutine_thread_stop: position and its local co_list; history: a
    \* coroutine_signal call was in progress when or after stop began, and
    \* the number of entries stop spliced out
    stop_pc, stop_list, stop_conc, stop_n,
    \* a fired BUG_ON (or "none")
    bug,
    \* history: entries of every coroutine, invocations of its function, the
    \* argument the function saw, a signal posted (after start returned, on a
    \* running coroutine) and not yet followed by the beginning of an entry,
    \* signals posted, cancel's store done, coroutine_start returned,
    \* signals posted after the first entry began, and those of them posted
    \* within the first entry's execution window
    entries, invoked, arg_seen, need, posted, cancelled, started, after1, inwin

covars == <<running, ref_count, signaled, fun, arg, ret, ctx, freed, stack_ok, x>>
thvars == <<co_list, tsignaled, stopping, lock>>
wvars == <<wpc, wco, wnext>>
svars == <<spc, sco>>
evars == <<prog, epc>>
stvars == <<stop_pc, stop_list, stop_conc, stop_n>>
hvars == <<entries, invoked, arg_seen, need, posted, cancelled, started, after1, inwin>>
vars == <<covars, thvars, wvars, svars, evars, stvars, bug, hvars>>

\* ----------------------------------------------------------- list helpers
InSeq(s, c) == \E i \in 1..Len(s) : s[i] = c
Remove(s, c) == SelectSeq(s, LAMBDA e : e # c)
Count(s, c) == Cardinality({i \in 1..Len(s) : s[i] = c})
IndexOf(s, c) == CHOOSE i \in 1..Len(s) : s[i] = c
MinOf(S) == CHOOSE m \in S : \A n \in S : m <= n

\* !list_empty(&co->co_list_entry): linked on the thread's list or on the
\* list coroutine_thread_stop spliced it to.
Linked(c) == InSeq(co_list, c) \/ InSeq(stop_list, c)

Call(op, c, f, a) == [op |-> op, co |-> c, fun |-> f, arg |-> a]
\* The API call an external thread is inside.
CurrentOp(t) == IF t \in Ext /\ epc[t] > 1 THEN prog[t][epc[t] - 1].op ELSE "none"
\* No call in progress on thread t.
Idle(t) ==
    /\ spc[t] = "none"
    /\ CurrentOp(t) = "stop" => stop_pc = "done"
HasCall(t, op) ==
    /\ bug = "none"
    /\ Idle(t)
    /\ epc[t] <= Len(prog[t])
    /\ prog[t][epc[t]].op = op
ExtDone(t) == Idle(t) /\ epc[t] > Len(prog[t])

\* ------------------------------------------------------- coroutine object
\* coroutine_create: ref_count 1, signaled 0, list link empty, memset 0.
coroutine_create(c) ==
    /\ running[c] = FALSE
    /\ ref_count[c] = 1
    /\ signaled[c] = 0
    /\ fun[c] = NULL
    /\ arg[c] = NULL
    /\ ret[c] = NULL
    /\ ctx[c] = "none"
    /\ freed[c] = FALSE
    /\ stack_ok[c] = TRUE

\* coroutine_delete on thread t: BUG_ON the magics; spin_lock_irqsave of
\* co_list_lock (a thread that holds the lock already spins on it for ever,
\* a thread that finds it held by another waits), list_del_init, unlock, free.
coroutine_delete(t, c) ==
    IF ~stack_ok[c]
    THEN /\ bug' = "delete_magic"
         /\ UNCHANGED <<freed, co_list>>
    ELSE IF lock = t
    THEN /\ bug' = "self_deadlock"
         /\ UNCHANGED <<freed, co_list>>
    ELSE /\ lock = NULL
         /\ freed' = [freed EXCEPT ![c] = TRUE]
         /\ co_list' = Remove(co_list, c)
         /\ UNCHANGED bug

\* coroutine_deref: atomic_dec_and_test, then coroutine_delete.
coroutine_deref(t, c) ==
    /\ ref_count' = [ref_count EXCEPT ![c] = @ - 1]
    /\ IF ref_count[c] = 1
       THEN coroutine_delete(t, c)
       ELSE UNCHANGED <<freed, co_list, bug>>

\* ------------------------------------------------------- coroutine_signal
\* An external thread calls coroutine_signal(co).
call_signal(t) ==
    /\ HasCall(t, "signal")
    /\ spc' = [spc EXCEPT ![t] = "inc"]
    /\ sco' = [sco EXCEPT ![t] = prog[t][epc[t]].co]
    /\ epc' = [epc EXCEPT ![t] = @ + 1]
    /\ UNCHANGED <<covars, thvars, wvars, prog, stvars, bug, hvars>>

\* The execution window of an entry of c: from the switch into c to the
\* worker's atomic_dec_and_test(&co->signaled) for that entry.
InWindow(c) == wco = c /\ wpc \in {"in_co", "next", "next_unlock", "deref_prev", "dec"}

\* atomic_inc(&co->signaled)
coroutine_signal_inc(t) ==
    /\ bug = "none"
    /\ stop_conc' = (stop_conc \/ stop_pc # "none")
    /\ spc[t] = "inc"
    /\ signaled' = [signaled EXCEPT ![sco[t]] = @ + 1]
    /\ spc' = [spc EXCEPT ![t] = "enq"]
    /\ need' = [need EXCEPT ![sco[t]] = @ \/ (started[sco[t]] /\ running[sco[t]])]
    /\ posted' = [posted EXCEPT ![sco[t]] = @ + 1]
    /\ after1' = [after1 EXCEPT ![sco[t]] = IF entries[sco[t]] >= 1 THEN @ + 1 ELSE @]
    /\ inwin' = [inwin EXCEPT ![sco[t]] =
                    IF entries[sco[t]] = 1 /\ InWindow(sco[t]) THEN @ + 1 ELSE @]
    /\ UNCHANGED <<running, ref_count, fun, arg, ret, ctx, freed, stack_ok, x,
                   thvars, wvars, sco, evars, stop_pc, stop_list, stop_n, bug,
                   entries, invoked, arg_seen, cancelled, started>>

\* The enqueue step without its list_empty test: a reference and an entry
\* per call.
coroutine_signal_enqueue_always(t) ==
    /\ bug = "none"
    /\ stop_conc' = (stop_conc \/ stop_pc # "none")
    /\ spc[t] = "enq"
    /\ lock = NULL
    /\ lock' = t
    /\ ref_count' = [ref_count EXCEPT ![sco[t]] = @ + 1]
    /\ co_list' = Append(co_list, sco[t])
    /\ spc' = [spc EXCEPT ![t] = "enq_unlock"]
    /\ UNCHANGED <<running, signaled, fun, arg, ret, ctx, freed, stack_ok, x,
                   tsignaled, stopping, wvars, sco, evars, stop_pc, stop_list, stop_n, bug, hvars>>

\* The enqueue step without coroutine_ref(co): the list holds no reference.
coroutine_signal_enqueue_noref(t) ==
    /\ bug = "none"
    /\ stop_conc' = (stop_conc \/ stop_pc # "none")
    /\ spc[t] = "enq"
    /\ lock = NULL
    /\ lock' = t
    /\ co_list' = IF ~Linked(sco[t]) THEN Append(co_list, sco[t]) ELSE co_list
    /\ spc' = [spc EXCEPT ![t] = "enq_unlock"]
    /\ UNCHANGED <<covars, tsignaled, stopping, wvars, sco, evars,
                   stop_pc, stop_list, stop_n, bug, hvars>>

\* spin_lock_irqsave(&thread->co_list_lock), then
\* if (list_empty(&co->co_list_entry)) { coroutine_ref; list_add_tail }
coroutine_signal_enqueue(t) ==
    /\ bug = "none"
    /\ stop_conc' = (stop_conc \/ stop_pc # "none")
    /\ spc[t] = "enq"
    /\ lock = NULL
    /\ lock' = t
    /\ IF ~Linked(sco[t])
       THEN /\ ref_count' = [ref_count EXCEPT ![sco[t]] = @ + 1]
            /\ co_list' = Append(co_list, sco[t])
       ELSE UNCHANGED <<ref_count, co_list>>
    /\ spc' = [spc EXCEPT ![t] = "enq_unlock"]
    /\ UNCHANGED <<running, signaled, fun, arg, ret, ctx, freed, stack_ok, x,
                   tsignaled, stopping, wvars, sco, evars, stop_pc, stop_list, stop_n, bug, hvars>>

\* spin_unlock_irqrestore(&thread->co_list_lock, flags)
coroutine_signal_unlock(t) ==
    /\ bug = "none"
    /\ stop_conc' = (stop_conc \/ stop_pc # "none")
    /\ spc[t] = "enq_unlock"
    /\ lock' = NULL
    /\ spc' = [spc EXCEPT ![t] = "wake"]
    /\ UNCHANGED <<covars, co_list, tsignaled, stopping, wvars, sco, evars,
                   stop_pc, stop_list, stop_n, bug, hvars>>

\* atomic_inc(&thread->signaled); wake_up_interruptible(&thread->waitq); the
\* call returns (and with it coroutine_start, when it made the call).
coroutine_signal_wake(t) ==
    /\ bug = "none"
    /\ stop_conc' = (stop_conc \/ stop_pc # "none")
    /\ spc[t] = "wake"
    /\ tsignaled' = tsignaled + 1
    /\ spc' = [spc EXCEPT ![t] = "none"]
    /\ started' = IF CurrentOp(t) = "start" \/ (t = Worker /\ ctx[wco] = "wait")
                  THEN [started EXCEPT ![sco[t]] = TRUE]
                  ELSE started
    /\ UNCHANGED <<covars, co_list, stopping, lock, wvars, sco, evars, stop_pc, stop_list, stop_n, bug,
                   entries, invoked, arg_seen, need, posted, cancelled, after1, inwin>>

\* An external thread that posts its signals after coroutine_start(co) has
\* returned waits for that.
ext_await(t) ==
    /\ HasCall(t, "await")
    /\ started[prog[t][epc[t]].co]
    /\ epc' = [epc EXCEPT ![t] = @ + 1]
    /\ UNCHANGED <<covars, thvars, wvars, svars, prog, stvars, bug, hvars>>

\* coroutine_start up to its call of coroutine_signal: co->fun, co->arg,
\* co->ctx.rip = coroutine_trampoline, co->ctx.rsp, co->running = true.
start_stores(c, f, a) ==
    /\ fun' = [fun EXCEPT ![c] = f]
    /\ arg' = [arg EXCEPT ![c] = a]
    /\ running' = [running EXCEPT ![c] = TRUE]

\* coroutine_start called by an external thread.
coroutine_start(t) ==
    /\ HasCall(t, "start")
    /\ LET call == prog[t][epc[t]] IN
       /\ start_stores(call.co, call.fun, call.arg)
       /\ ctx' = [ctx EXCEPT ![call.co] = "trampoline"]
       /\ spc' = [spc EXCEPT ![t] = "inc"]
       /\ sco' = [sco EXCEPT ![t] = call.co]
    /\ epc' = [epc EXCEPT ![t] = @ + 1]
    /\ UNCHANGED <<ref_count, signaled, ret, freed, stack_ok, x, thvars, wvars,
                   prog, stvars, bug, hvars>>

\* coroutine_cancel: co->running = false, then coroutine_signal.
coroutine_cancel(t) ==
    /\ HasCall(t, "cancel")
    /\ LET c == prog[t][epc[t]].co IN
       /\ running' = [running EXCEPT ![c] = FALSE]
       /\ cancelled' = [cancelled EXCEPT ![c] = TRUE]
       /\ spc' = [spc EXCEPT ![t] = "inc"]
       /\ sco' = [sco EXCEPT ![t] = c]
    /\ epc' = [epc EXCEPT ![t] = @ + 1]
    /\ UNCHANGED <<ref_count, signaled, fun, arg, ret, ctx, freed, stack_ok, x,
                   thvars, wvars, prog, stvars, bug,
                   entries, invoked, arg_seen, need, posted, started, after1, inwin>>

\* The user drops the creation reference: coroutine_deref(co).
user_deref(t) ==
    /\ HasCall(t, "deref")
    /\ coroutine_deref(t, prog[t][epc[t]].co)
    /\ epc' = [epc EXCEPT ![t] = @ + 1]
    /\ UNCHANGED <<running, signaled, fun, arg, ret, ctx, stack_ok, x,
                   tsignaled, stopping, lock, wvars, svars, prog, stvars, hvars>>

\* ------------------------------------------- coroutine_thread_next_coroutine
\* The first entry after prev (or from the head) whose ref_count is not zero.
next_coroutine(prev) ==
    LET from == IF prev = NULL THEN 1 ELSE IndexOf(co_list, prev) + 1
        ok == {i \in from..Len(co_list) : ref_count[co_list[i]] > 0}
    IN IF ok = {} THEN NULL ELSE co_list[MinOf(ok)]

\* ------------------------------------------------ coroutine_thread_routine
\* wait_event_interruptible(waitq, stopping || atomic_read(&signaled))
routine_wait ==
    /\ bug = "none"
    /\ wpc = "wait"
    /\ stopping \/ tsignaled > 0
    /\ wpc' = "check_stopping"
    /\ UNCHANGED <<covars, thvars, wco, wnext, svars, evars, stvars, bug, hvars>>

\* if (thread->stopping) break;
routine_check_stopping ==
    /\ bug = "none"
    /\ wpc = "check_stopping"
    /\ wpc' = IF stopping THEN "exited" ELSE "first"
    /\ UNCHANGED <<covars, thvars, wco, wnext, svars, evars, stvars, bug, hvars>>

\* The first walk without atomic_inc_not_zero(&co->ref_count): no walker
\* reference is taken on the coroutine returned.
routine_first_noref ==
    /\ bug = "none"
    /\ wpc = "first"
    /\ IF co_list = <<>>
       THEN /\ wco' = NULL
            /\ wpc' = "pass_end"
            /\ UNCHANGED lock
       ELSE /\ lock = NULL
            /\ lock' = Worker
            /\ wco' = next_coroutine(NULL)
            /\ wpc' = "first_unlock"
    /\ UNCHANGED <<covars, co_list, tsignaled, stopping, wnext, svars, evars,
                   stvars, bug, hvars>>

\* co = coroutine_thread_next_coroutine(thread, NULL): NULL at once when the
\* list is empty (read without the lock); else the walk under co_list_lock,
\* taking a reference on the coroutine it returns.
routine_first ==
    /\ bug = "none"
    /\ wpc = "first"
    /\ IF co_list = <<>>
       THEN /\ wco' = NULL
            /\ wpc' = "pass_end"
            /\ UNCHANGED <<lock, ref_count>>
       ELSE /\ lock = NULL
            /\ lock' = Worker
            /\ LET co == next_coroutine(NULL) IN
               /\ wco' = co
               /\ ref_count' = IF co = NULL THEN ref_count
                               ELSE [ref_count EXCEPT ![co] = @ + 1]
            /\ wpc' = "first_unlock"
    /\ UNCHANGED <<running, signaled, fun, arg, ret, ctx, freed, stack_ok, x,
                   co_list, tsignaled, stopping, wnext, svars, evars, stvars,
                   bug, hvars>>

\* coroutine_thread_next_coroutine(thread, NULL): spin_unlock_irqrestore, return
routine_first_unlock ==
    /\ bug = "none"
    /\ wpc = "first_unlock"
    /\ lock' = NULL
    /\ wpc' = IF wco = NULL THEN "pass_end" ELSE "check_running"
    /\ UNCHANGED <<covars, co_list, tsignaled, stopping, wco, wnext, svars,
                   evars, stvars, bug, hvars>>

\* if (co->running)
routine_check_running ==
    /\ bug = "none"
    /\ wpc = "check_running"
    /\ wpc' = IF running[wco] THEN "enter" ELSE "next"
    /\ UNCHANGED <<covars, thvars, wco, wnext, svars, evars, stvars, bug, hvars>>

\* coroutine_enter: BUG_ON(co->magic), BUG_ON(!co->running).  co->running is
\* a plain field read twice without a barrier (by the caller's if and by
\* this BUG_ON, inlined into it): when another thread has cleared it in
\* between, the build either reloads it and BUG_ON fires, or reuses the
\* value the if loaded and goes on to the switch.
coroutine_enter ==
    /\ bug = "none"
    /\ wpc = "enter"
    /\ IF running[wco]
       THEN wpc' = "switch" /\ UNCHANGED bug
       ELSE \/ bug' = "enter_not_running" /\ UNCHANGED wpc
            \/ wpc' = "switch" /\ UNCHANGED bug
    /\ UNCHANGED <<covars, thvars, wco, wnext, svars, evars, stvars, hvars>>

\* coroutine_enter: kernel_setjmp(&thread->ctx) == 0, kernel_longjmp(&co->ctx)
enter_switch ==
    /\ bug = "none"
    /\ wpc = "switch"
    /\ wpc' = "in_co"
    /\ entries' = [entries EXCEPT ![wco] = @ + 1]
    /\ need' = [need EXCEPT ![wco] = FALSE]
    /\ UNCHANGED <<covars, thvars, wco, wnext, svars, evars, stvars, bug,
                   invoked, arg_seen, posted, cancelled, started, after1, inwin>>

\* next_co = coroutine_thread_next_coroutine(thread, co): the walk, under
\* co_list_lock, taking a reference on the coroutine it returns.
routine_next ==
    /\ bug = "none"
    /\ wpc = "next"
    /\ lock = NULL
    /\ lock' = Worker
    /\ LET nxt == next_coroutine(wco) IN
       /\ wnext' = nxt
       /\ ref_count' = IF nxt = NULL THEN ref_count
                       ELSE [ref_count EXCEPT ![nxt] = @ + 1]
    /\ wpc' = "next_unlock"
    /\ UNCHANGED <<running, signaled, fun, arg, ret, ctx, freed, stack_ok, x,
                   co_list, tsignaled, stopping, wco, svars, evars, stvars,
                   bug, hvars>>

\* coroutine_thread_next_coroutine with coroutine_deref(prev_co) before the
\* unlock instead of after it.
routine_next_deref_locked ==
    /\ bug = "none"
    /\ wpc = "next_unlock"
    /\ coroutine_deref(Worker, wco)
    /\ lock' = NULL
    /\ wpc' = "dec"
    /\ UNCHANGED <<running, signaled, fun, arg, ret, ctx, stack_ok, x,
                   tsignaled, stopping, wco, wnext, svars, evars, stvars, hvars>>

\* coroutine_thread_next_coroutine(thread, co): spin_unlock_irqrestore
routine_next_unlock ==
    /\ bug = "none"
    /\ wpc = "next_unlock"
    /\ lock' = NULL
    /\ wpc' = "deref_prev"
    /\ UNCHANGED <<covars, co_list, tsignaled, stopping, wco, wnext, svars,
                   evars, stvars, bug, hvars>>

\* coroutine_thread_next_coroutine: coroutine_deref(prev_co) after the unlock
routine_deref_prev ==
    /\ bug = "none"
    /\ wpc = "deref_prev"
    /\ coroutine_deref(Worker, wco)
    /\ wpc' = "dec"
    /\ UNCHANGED <<running, signaled, fun, arg, ret, ctx, stack_ok, x,
                   tsignaled, stopping, lock, wco, wnext, svars, evars, stvars, hvars>>

\* if (atomic_dec_and_test(&co->signaled))
routine_dec_signaled ==
    /\ bug = "none"
    /\ wpc = "dec"
    /\ signaled[wco] > -MaxUnderflow
    /\ signaled' = [signaled EXCEPT ![wco] = @ - 1]
    /\ wpc' = IF signaled[wco] = 1 THEN "del" ELSE "requeue"
    /\ UNCHANGED <<running, ref_count, fun, arg, ret, ctx, freed, stack_ok, x,
                   thvars, wco, wnext, svars, evars, stvars, bug, hvars>>

\* spin_lock_irqsave; BUG_ON(list_empty(&co->co_list_entry));
\* list_del_init(&co->co_list_entry)
routine_del ==
    /\ bug = "none"
    /\ wpc = "del"
    /\ lock = NULL
    /\ lock' = Worker
    /\ IF Linked(wco)
       THEN /\ co_list' = Remove(co_list, wco)
            /\ wpc' = "del_unlock"
            /\ UNCHANGED bug
       ELSE /\ bug' = "del_list_empty"
            /\ UNCHANGED <<co_list, wpc>>
    /\ UNCHANGED <<covars, tsignaled, stopping, wco, wnext, svars, evars, stvars, hvars>>

\* spin_unlock_irqrestore(&thread->co_list_lock, flags) after list_del_init
routine_del_unlock ==
    /\ bug = "none"
    /\ wpc = "del_unlock"
    /\ lock' = NULL
    /\ wpc' = "deref"
    /\ UNCHANGED <<covars, co_list, tsignaled, stopping, wco, wnext, svars,
                   evars, stvars, bug, hvars>>

\* coroutine_deref(co); co = next_co;
routine_deref ==
    /\ bug = "none"
    /\ wpc = "deref"
    /\ coroutine_deref(Worker, wco)
    /\ wco' = wnext
    /\ wpc' = IF wnext = NULL THEN "pass_end" ELSE "check_running"
    /\ UNCHANGED <<running, signaled, fun, arg, ret, ctx, stack_ok, x,
                   tsignaled, stopping, lock, wnext, svars, evars, stvars, hvars>>

\* The re-queue with list_add in place of list_add_tail: the re-armed
\* coroutine goes back to the head of the list.
routine_requeue_head ==
    /\ bug = "none"
    /\ wpc = "requeue"
    /\ lock = NULL
    /\ lock' = Worker
    /\ IF Linked(wco)
       THEN /\ co_list' = <<wco>> \o Remove(co_list, wco)
            /\ wpc' = "requeue_unlock"
            /\ UNCHANGED bug
       ELSE /\ bug' = "requeue_list_empty"
            /\ UNCHANGED <<co_list, wpc>>
    /\ UNCHANGED <<covars, tsignaled, stopping, wco, wnext, svars, evars, stvars, hvars>>

\* spin_lock_irqsave; BUG_ON(list_empty(...)); list_del_init; list_add_tail
routine_requeue ==
    /\ bug = "none"
    /\ wpc = "requeue"
    /\ lock = NULL
    /\ lock' = Worker
    /\ IF Linked(wco)
       THEN /\ co_list' = Append(Remove(co_list, wco), wco)
            /\ wpc' = "requeue_unlock"
            /\ UNCHANGED bug
       ELSE /\ bug' = "requeue_list_empty"
            /\ UNCHANGED <<co_list, wpc>>
    /\ UNCHANGED <<covars, tsignaled, stopping, wco, wnext, svars, evars, stvars, hvars>>

\* spin_unlock_irqrestore(&thread->co_list_lock, flags); co = next_co;
routine_requeue_unlock ==
    /\ bug = "none"
    /\ wpc = "requeue_unlock"
    /\ lock' = NULL
    /\ wco' = wnext
    /\ wpc' = IF wnext = NULL THEN "pass_end" ELSE "check_running"
    /\ UNCHANGED <<covars, co_list, tsignaled, stopping, wnext, svars, evars,
                   stvars, bug, hvars>>

\* if (atomic_dec_and_test(&thread->signaled)) break;
routine_pass_end ==
    /\ bug = "none"
    /\ wpc = "pass_end"
    /\ tsignaled' = tsignaled - 1
    /\ wpc' = IF tsignaled = 1 THEN "wait" ELSE "first"
    /\ UNCHANGED <<covars, co_list, stopping, lock, wco, wnext, svars, evars, stvars, bug, hvars>>

coroutine_thread_routine ==
    \/ routine_wait
    \/ routine_check_stopping
    \/ routine_first
    \/ routine_first_unlock
    \/ routine_check_running
    \/ coroutine_enter
    \/ enter_switch
    \/ routine_next
    \/ routine_next_unlock
    \/ routine_deref_prev
    \/ routine_dec_signaled
    \/ routine_del
    \/ routine_del_unlock
    \/ routine_deref
    \/ routine_requeue
    \/ routine_requeue_unlock
    \/ routine_pass_end

\* ------------------------------------------------------------- trampoline
InCo(c) == bug = "none" /\ wpc = "in_co" /\ wco = c /\ Idle(Worker)

\* coroutine_yield(self): save self's context, resume the worker's.
coroutine_yield(c, resume) ==
    /\ ctx' = [ctx EXCEPT ![c] = resume]
    /\ wpc' = "next"

\* coroutine_trampoline up to the call of co->fun(co, co->arg).
coroutine_trampoline(c) ==
    /\ InCo(c)
    /\ ctx[c] = "trampoline"
    /\ IF stack_ok[c]
       THEN /\ ctx' = [ctx EXCEPT ![c] = "body"]
            /\ invoked' = [invoked EXCEPT ![c] = @ + 1]
            /\ arg_seen' = [arg_seen EXCEPT ![c] = arg[c]]
            /\ UNCHANGED bug
       ELSE /\ bug' = "trampoline_magic"
            /\ UNCHANGED <<ctx, invoked, arg_seen>>
    /\ UNCHANGED <<running, ref_count, signaled, fun, arg, ret, freed, stack_ok, x,
                   thvars, wvars, svars, evars, stvars,
                   entries, need, posted, cancelled, started, after1, inwin>>

\* coroutine_trampoline after co->fun returned v: co->ret = v, the magics,
\* mb(), co->running = false, coroutine_yield(co).
trampoline_return(c, v) ==
    IF stack_ok[c]
    THEN /\ ret' = [ret EXCEPT ![c] = v]
         /\ running' = [running EXCEPT ![c] = FALSE]
         /\ coroutine_yield(c, "returned")
         /\ UNCHANGED bug
    ELSE /\ bug' = "trampoline_magic"
         /\ UNCHANGED <<ret, running, ctx, wpc>>

\* ---------------------------------------------------------- user functions
\* loop { yield(self); }: a coroutine that never completes.
fun_loop(c) ==
    /\ InCo(c)
    /\ fun[c] = "loop"
    /\ ctx[c] = "body"
    /\ coroutine_yield(c, "body")
    /\ UNCHANGED <<running, ref_count, signaled, fun, arg, ret, freed, stack_ok, x,
                   thvars, wco, wnext, svars, evars, stvars, bug, hvars>>

\* while (x < K) { x += 1; yield(self); }: the consumer of the
\* producer-consumer scenario, K = MaxIter.
fun_consumer(c) ==
    /\ InCo(c)
    /\ fun[c] = "consumer"
    /\ ctx[c] = "body"
    /\ IF x[c] < MaxIter
       THEN /\ x' = [x EXCEPT ![c] = @ + 1]
            /\ coroutine_yield(c, "body")
            /\ UNCHANGED <<ret, running, bug>>
       ELSE /\ trampoline_return(c, "done")
            /\ UNCHANGED x
    /\ UNCHANGED <<ref_count, signaled, fun, arg, freed, stack_ok,
                   thvars, wco, wnext, svars, evars, stvars, hvars>>

Other(c) == CHOOSE d \in Cos : d # c

\* repeat N times { signal(other); yield(self); }: the ping-pong scenario,
\* N = MaxIter.  Here: the loop test, and the call of coroutine_signal.
fun_pingpong_signal(c) ==
    /\ InCo(c)
    /\ fun[c] = "pingpong"
    /\ ctx[c] = "body"
    /\ IF x[c] < MaxIter
       THEN /\ spc' = [spc EXCEPT ![Worker] = "inc"]
            /\ sco' = [sco EXCEPT ![Worker] = Other(c)]
            /\ ctx' = [ctx EXCEPT ![c] = "signalled"]
            /\ UNCHANGED <<ret, running, wpc, bug>>
       ELSE /\ trampoline_return(c, "done")
            /\ UNCHANGED svars
    /\ UNCHANGED <<ref_count, signaled, fun, arg, freed, stack_ok, x,
                   thvars, wco, wnext, evars, stvars, hvars>>

\* The ping-pong body after coroutine_signal returned: yield(self).
fun_pingpong_yield(c) ==
    /\ InCo(c)
    /\ fun[c] = "pingpong"
    /\ ctx[c] = "signalled"
    /\ x' = [x EXCEPT ![c] = @ + 1]
    /\ coroutine_yield(c, "body")
    /\ UNCHANGED <<running, ref_count, signaled, fun, arg, ret, freed, stack_ok,
                   thvars, wco, wnext, svars, evars, stvars, bug, hvars>>

\* The join scenario's P: coroutine_start(Q, q_fun, arg), then wait(P, Q).
fun_join_start(c) ==
    /\ InCo(c)
    /\ fun[c] = "join"
    /\ ctx[c] = "body"
    /\ start_stores(Other(c), "answer", arg[c])
    /\ ctx' = [ctx EXCEPT ![c] = "wait", ![Other(c)] = "trampoline"]
    /\ spc' = [spc EXCEPT ![Worker] = "inc"]
    /\ sco' = [sco EXCEPT ![Worker] = Other(c)]
    /\ UNCHANGED <<ref_count, signaled, ret, freed, stack_ok, x,
                   thvars, wvars, evars, stvars, bug, hvars>>

\* coroutine_wait(self, co): while (co->running) coroutine_yield(self);
\* return co->ret; and P returns what wait returned.
coroutine_wait(c) ==
    /\ InCo(c)
    /\ fun[c] = "join"
    /\ ctx[c] = "wait"
    /\ IF running[Other(c)]
       THEN /\ coroutine_yield(c, "wait")
            /\ UNCHANGED <<ret, running, bug>>
       ELSE trampoline_return(c, ret[Other(c)])
    /\ UNCHANGED <<ref_count, signaled, fun, arg, freed, stack_ok, x,
                   thvars, wco, wnext, svars, evars, stvars, hvars>>

\* The join scenario's Q: return 42.
fun_answer(c) ==
    /\ InCo(c)
    /\ fun[c] = "answer"
    /\ ctx[c] = "body"
    /\ trampoline_return(c, 42)
    /\ UNCHANGED <<ref_count, signaled, fun, arg, freed, stack_ok, x,
                   thvars, wco, wnext, svars, evars, stvars, hvars>>

\* The stack-magic scenario's body: *(ulong *)co->stack = 0, overwriting
\* STACK_BOTTOM_MAGIC ...
fun_smash_write(c) ==
    /\ InCo(c)
    /\ fun[c] = "smash"
    /\ ctx[c] = "body"
    /\ stack_ok' = [stack_ok EXCEPT ![c] = FALSE]
    /\ ctx' = [ctx EXCEPT ![c] = "smashed"]
    /\ UNCHANGED <<running, ref_count, signaled, fun, arg, ret, freed, x,
                   thvars, wvars, svars, evars, stvars, bug, hvars>>

\* ... then loop { yield(self); }.
fun_smash_yield(c) ==
    /\ InCo(c)
    /\ fun[c] = "smash"
    /\ ctx[c] = "smashed"
    /\ coroutine_yield(c, "smashed")
    /\ UNCHANGED <<running, ref_count, signaled, fun, arg, ret, freed, stack_ok, x,
                   thvars, wco, wnext, svars, evars, stvars, bug, hvars>>

\* tlb_con_coroutine (src/server.c): tlb_con_delete(con), which drops the
\* creator's reference with coroutine_deref(con->co) ...
fun_con(c) ==
    /\ InCo(c)
    /\ fun[c] = "con"
    /\ ctx[c] = "body"
    /\ coroutine_deref(Worker, c)
    /\ ctx' = [ctx EXCEPT ![c] = "con_deleted"]
    /\ UNCHANGED <<running, signaled, fun, arg, ret, stack_ok, x,
                   tsignaled, stopping, lock, wvars, svars, evars, stvars, hvars>>

\* ... and return NULL.
fun_con_return(c) ==
    /\ InCo(c)
    /\ fun[c] = "con"
    /\ ctx[c] = "con_deleted"
    /\ trampoline_return(c, NULL)
    /\ UNCHANGED <<ref_count, signaled, fun, arg, freed, stack_ok, x,
                   thvars, wco, wnext, svars, evars, stvars, hvars>>

\* ------------------------------------------------- coroutine_thread_stop
\* The thread inside coroutine_thread_stop.
StopCaller == CHOOSE t \in Ext : CurrentOp(t) = "stop"

\* thread->stopping = true; wake_up_interruptible(&thread->waitq);
stop_begin(t) ==
    /\ HasCall(t, "stop")
    /\ stopping' = TRUE
    /\ stop_pc' = "kthread_stop"
    /\ epc' = [epc EXCEPT ![t] = @ + 1]
    /\ stop_conc' = \E u \in Threads : spc[u] # "none"
    /\ UNCHANGED <<covars, co_list, tsignaled, lock, wvars, svars, prog, stop_list,
                   stop_n, bug, hvars>>

\* kthread_stop(thread->task) returns once the worker's routine has returned.
stop_kthread_stop ==
    /\ bug = "none"
    /\ stop_pc = "kthread_stop"
    /\ wpc = "exited"
    /\ stop_pc' = "splice"
    /\ UNCHANGED <<covars, thvars, wvars, svars, evars, stop_list,
                   stop_conc, stop_n, bug, hvars>>

\* spin_lock_irqsave; list_splice_init(&thread->co_list, &co_list)
stop_splice ==
    /\ bug = "none"
    /\ stop_pc = "splice"
    /\ lock = NULL
    /\ lock' = StopCaller
    /\ stop_list' = co_list
    /\ co_list' = <<>>
    /\ stop_pc' = "splice_unlock"
    /\ stop_n' = Len(co_list)
    /\ UNCHANGED <<covars, tsignaled, stopping, wvars, svars, evars, stop_conc,
                   bug, hvars>>

\* spin_unlock_irqrestore(&thread->co_list_lock, flags) after the splice
stop_splice_unlock ==
    /\ bug = "none"
    /\ stop_pc = "splice_unlock"
    /\ lock' = NULL
    /\ stop_pc' = "drain"
    /\ UNCHANGED <<covars, co_list, tsignaled, stopping, wvars, svars, evars,
                   stop_list, stop_conc, stop_n, bug, hvars>>

\* The loop of coroutine_thread_stop without its coroutine_deref(co): the
\* entries are unlinked, the list's references are kept.
stop_drain_noderef ==
    /\ bug = "none"
    /\ stop_pc = "drain"
    /\ IF stop_list = <<>>
       THEN stop_pc' = "done" /\ UNCHANGED stop_list
       ELSE stop_list' = Tail(stop_list) /\ UNCHANGED stop_pc
    /\ UNCHANGED <<covars, thvars, wvars, svars, evars, stop_conc, stop_n,
                   bug, hvars>>

\* list_for_each_entry_safe: list_del_init(&co->co_list_entry);
\* coroutine_deref(co); then put_task_struct and return.
stop_drain ==
    /\ bug = "none"
    /\ stop_pc = "drain"
    /\ IF stop_list = <<>>
       THEN /\ stop_pc' = "done"
            /\ UNCHANGED <<stop_list, ref_count, freed, co_list, bug>>
       ELSE /\ stop_list' = Tail(stop_list)
            /\ coroutine_deref(StopCaller, Head(stop_list))
            /\ UNCHANGED stop_pc
    /\ UNCHANGED <<running, signaled, fun, arg, ret, ctx, stack_ok, x,
                   tsignaled, stopping, lock, wvars, svars, evars, stop_conc, stop_n,
                   hvars>>

coroutine_thread_stop ==
    \/ \E t \in Ext : stop_begin(t)
    \/ stop_kthread_stop
    \/ stop_splice
    \/ stop_splice_unlock
    \/ stop_drain

\* ------------------------------------------------------------------- Init
InitCommon ==
    /\ running = [c \in Cos |-> FALSE]
    /\ ref_count = [c \in Cos |-> 1]
    /\ signaled = [c \in Cos |-> 0]
    /\ fun = [c \in Cos |-> NULL]
    /\ arg = [c \in Cos |-> NULL]
    /\ ret = [c \in Cos |-> NULL]
    /\ ctx = [c \in Cos |-> "none"]
    /\ freed = [c \in Cos |-> FALSE]
    /\ stack_ok = [c \in Cos |-> TRUE]
    /\ x = [c \in Cos |-> 0]
    /\ co_list = <<>>
    /\ tsignaled = 0
    /\ stopping = FALSE
    /\ lock = NULL
    /\ wpc = "wait"
    /\ wco = NULL
    /\ wnext = NULL
    /\ spc = [t \in Threads |-> "none"]
    /\ sco = [t \in Threads |-> NULL]
    /\ epc = [t \in Ext |-> 1]
    /\ stop_pc = "none"
    /\ stop_list = <<>>
    /\ stop_conc = FALSE
    /\ stop_n = 0
    /\ bug = "none"
    /\ entries = [c \in Cos |-> 0]
    /\ invoked = [c \in Cos |-> 0]
    /\ arg_seen = [c \in Cos |-> NULL]
    /\ need = [c \in Cos |-> FALSE]
    /\ posted = [c \in Cos |-> 0]
    /\ cancelled = [c \in Cos |-> FALSE]
    /\ started = [c \in Cos |-> FALSE]
    /\ after1 = [c \in Cos |-> 0]
    /\ inwin = [c \in Cos |-> 0]
    /\ \A c \in Cos : coroutine_create(c)

Signals(c, n) == [i \in 1..n |-> Call("signal", c, NULL, NULL)]

Await(c) == <<Call("await", c, NULL, NULL)>>
Start(c, f, a) == <<Call("start", c, f, a)>>

\* Scenario "signal": e1 starts A (a coroutine that yields forever) and then
\* posts signals on it; e2 posts signals on A too, once A is started.
Init ==
    /\ prog \in {[e1 |-> Start("A", "loop", "argA") \o Signals("A", n1),
                  e2 |-> Await("A") \o Signals("A", n2)] :
                    n1 \in 0..MaxSignals, n2 \in 0..MaxSignals}
    /\ InitCommon

\* Scenario "two coroutines": as "signal", with e2 first starting a second
\* coroutine B (yields forever) and posting its signals on either.
InitTwo ==
    /\ prog \in {[e1 |-> Start("A", "loop", "argA") \o Signals("A", n1),
                  e2 |-> Start("B", "loop", "argB") \o Await("A") \o Signals(c, n2)] :
                    n1 \in 0..MaxSignals, n2 \in 0..MaxSignals, c \in Cos}
    /\ InitCommon

\* Scenario "fifo": e1 starts A and posts signals on it, so that A is
\* re-armed while it runs; e2 starts B and, once A is started, posts signals
\* on B.  Both coroutines yield forever.
InitFifo ==
    /\ prog \in {[e1 |-> Start("A", "loop", "argA") \o Signals("A", n1),
                  e2 |-> Start("B", "loop", "argB") \o Await("A") \o Signals("B", n2)] :
                    n1 \in 1..MaxSignals, n2 \in 0..1}
    /\ InitCommon

SignalSteps ==
    \/ \E t \in Threads : coroutine_signal_inc(t)
    \/ \E t \in Threads : coroutine_signal_enqueue(t)
    \/ \E t \in Threads : coroutine_signal_unlock(t)
    \/ \E t \in Threads : coroutine_signal_wake(t)

Next ==
    \/ \E t \in Ext : coroutine_start(t)
    \/ \E t \in Ext : ext_await(t)
    \/ \E t \in Ext : call_signal(t)
    \/ SignalSteps
    \/ coroutine_thread_routine
    \/ \E c \in Cos : coroutine_trampoline(c)
    \/ \E c \in Cos : fun_loop(c)

Spec == Init /\ [][Next]_vars

SpecTwo == InitTwo /\ [][Next]_vars
SpecFifo == InitFifo /\ [][Next]_vars

\* Scenario "cancel": e1 starts A (yields forever); e2, once A is started,
\* cancels it, posts signals on it and drops the user's reference.
InitCancel ==
    /\ prog \in {[e1 |-> Start("A", "loop", "argA"),
                  e2 |-> Await("A") \o <<Call("cancel", "A", NULL, NULL)>>
                         \o Signals("A", n) \o <<Call("deref", "A", NULL, NULL)>>] :
                    n \in 0..MaxSignals}
    /\ InitCommon

NextCancel ==
    \/ \E t \in Ext : coroutine_start(t)
    \/ \E t \in Ext : ext_await(t)
    \/ \E t \in Ext : coroutine_cancel(t)
    \/ \E t \in Ext : call_signal(t)
    \/ \E t \in Ext : user_deref(t)
    \/ SignalSteps
    \/ coroutine_thread_routine
    \/ \E c \in Cos : coroutine_trampoline(c)
    \/ \E c \in Cos : fun_loop(c)

SpecCancel == InitCancel /\ [][NextCancel]_vars

\* Scenario "stop": e1 starts A (yields forever) and posts signals on it; e2,
\* once A is started, stops the thread.
InitStop ==
    /\ prog \in {[e1 |-> Start("A", "loop", "argA") \o Signals("A", n),
                  e2 |-> Await("A") \o <<Call("stop", NULL, NULL, NULL)>>] :
                    n \in 0..MaxSignals}
    /\ InitCommon

NextStop ==
    \/ \E t \in Ext : coroutine_start(t)
    \/ \E t \in Ext : ext_await(t)
    \/ \E t \in Ext : call_signal(t)
    \/ SignalSteps
    \/ coroutine_thread_routine
    \/ \E c \in Cos : coroutine_trampoline(c)
    \/ \E c \in Cos : fun_loop(c)
    \/ coroutine_thread_stop

SpecStop == InitStop /\ [][NextStop]_vars

\* Scenario "producer-consumer": e1 starts the consumer A; e2, once A is
\* started, posts K = MaxIter signals on it.
InitConsumer ==
    /\ prog = [e1 |-> Start("A", "consumer", "argA"),
               e2 |-> Await("A") \o Signals("A", MaxIter)]
    /\ InitCommon

NextConsumer ==
    \/ \E t \in Ext : coroutine_start(t)
    \/ \E t \in Ext : ext_await(t)
    \/ \E t \in Ext : call_signal(t)
    \/ SignalSteps
    \/ coroutine_thread_routine
    \/ \E c \in Cos : coroutine_trampoline(c)
    \/ \E c \in Cos : fun_consumer(c)

SpecConsumer == InitConsumer /\ [][NextConsumer]_vars

\* Scenario "join": e1 starts P = A, which starts Q = B and waits for it; e2
\* posts signals on Q (nobody but coroutine_start signals P).
InitJoin ==
    /\ prog \in {[e1 |-> Start("A", "join", "argA"),
                  e2 |-> Signals("B", n)] : n \in 0..MaxSignals}
    /\ InitCommon

NextJoin ==
    \/ \E t \in Ext : coroutine_start(t)
    \/ \E t \in Ext : call_signal(t)
    \/ SignalSteps
    \/ coroutine_thread_routine
    \/ \E c \in Cos : coroutine_trampoline(c)
    \/ \E c \in Cos : fun_join_start(c)
    \/ \E c \in Cos : coroutine_wait(c)
    \/ \E c \in Cos : fun_answer(c)

SpecJoin == InitJoin /\ [][NextJoin]_vars

\* Scenario "ping-pong": e1 calls start(A) then start(B), both running
\* repeat N times { signal(other); yield(self); }.
InitPingPong ==
    /\ prog = [e1 |-> Start("A", "pingpong", "argA") \o Start("B", "pingpong", "argB"),
               e2 |-> <<>>]
    /\ InitCommon

NextPingPong ==
    \/ \E t \in Ext : coroutine_start(t)
    \/ SignalSteps
    \/ coroutine_thread_routine
    \/ \E c \in Cos : coroutine_trampoline(c)
    \/ \E c \in Cos : fun_pingpong_signal(c)
    \/ \E c \in Cos : fun_pingpong_yield(c)

SpecPingPong == InitPingPong /\ [][NextPingPong]_vars

\* Scenario "lifetime": e1 starts A (yields forever) and a connection
\* coroutine B, whose body drops the creator's reference; e2, once A is
\* started, cancels A, posts signals on it and drops the user's reference.
InitLife ==
    /\ prog \in {[e1 |-> Start("A", "loop", "argA") \o Start("B", "con", "argB"),
                  e2 |-> Await("A") \o <<Call("cancel", "A", NULL, NULL)>>
                         \o Signals("A", n) \o <<Call("deref", "A", NULL, NULL)>>] :
                    n \in 0..MaxSignals}
    /\ InitCommon

NextLife ==
    \/ \E t \in Ext : coroutine_start(t)
    \/ \E t \in Ext : ext_await(t)
    \/ \E t \in Ext : coroutine_cancel(t)
    \/ \E t \in Ext : call_signal(t)
    \/ \E t \in Ext : user_deref(t)
    \/ SignalSteps
    \/ coroutine_thread_routine
    \/ \E c \in Cos : coroutine_trampoline(c)
    \/ \E c \in Cos : fun_loop(c)
    \/ \E c \in Cos : fun_con(c)
    \/ \E c \in Cos : fun_con_return(c)

SpecLife == InitLife /\ [][NextLife]_vars

\* Scenario "stack magic": e1 starts A, which overwrites the bottom magic of
\* its stack and then yields forever; e2 posts signals on A.
InitSmash ==
    /\ prog \in {[e1 |-> Start("A", "smash", "argA"),
                  e2 |-> Await("A") \o Signals("A", n)] : n \in 0..MaxSignals}
    /\ InitCommon

NextSmash ==
    \/ \E t \in Ext : coroutine_start(t)
    \/ \E t \in Ext : ext_await(t)
    \/ \E t \in Ext : call_signal(t)
    \/ SignalSteps
    \/ coroutine_thread_routine
    \/ \E c \in Cos : coroutine_trampoline(c)
    \/ \E c \in Cos : fun_smash_write(c)
    \/ \E c \in Cos : fun_smash_yield(c)

SpecSmash == InitSmash /\ [][NextSmash]_vars

\* ------------------------------------------------------------ quiescence
\* Every external call has returned and the worker is parked on the waitq
\* with thread->signaled == 0: no action is enabled, nothing runs again
\* until another call is made.
AllExtDone == \A t \in Ext : ExtDone(t)
Parked == wpc = "wait" /\ tsignaled = 0 /\ ~stopping
Quiescent == bug = "none" /\ AllExtDone /\ Parked

\* ------------------------------------------------------------------ C1
\* C1: no lost wake-up.  A signal posted (once start has returned) on a
\* running, uncancelled coroutine is followed by an entry of it: so the
\* worker never parks, with every call returned, while such a signal has had
\* no entry begin after its increment of co->signaled.
C1_NoLostWakeup ==
    \A c \in Cos :
        (Quiescent /\ running[c] /\ ~cancelled[c]) => ~need[c]

\* ------------------------------------------------------------------ C2
\* C2: producer-consumer.  When the K signals are posted and the worker has
\* nothing left to do, the consumer has reached x = K and has returned.
C2_ConsumerCompletes ==
    Quiescent => (x["A"] = MaxIter /\ ~running["A"] /\ ctx["A"] = "returned")

\* ------------------------------------------------------------------ C3
\* C3: signal collapsing.  Of a coroutine that yields forever, whose K >= 1
\* signals were all posted after its first entry began: when everything is
\* processed it has been entered at least 1 and at most K more times, and
\* exactly once more when all K fell into the first execution window.
C3_SignalsCollapse ==
    \A c \in Cos :
        (Quiescent /\ running[c] /\ after1[c] >= 1 /\ posted[c] = 1 + after1[c])
        => /\ entries[c] - 1 >= 1
           /\ entries[c] - 1 <= after1[c]
           /\ inwin[c] = after1[c] => entries[c] - 1 = 1

\* ------------------------------------------------------------------ C4
\* C4: once coroutine_cancel(co) has stored running = false, no
\* coroutine_enter(co) begins and no switch into co is made; and running,
\* once false after start, does not become true again.
C4_NoEnterAfterCancel ==
    [][ /\ (wpc = "enter" /\ <<wpc, bug>>' # <<wpc, bug>>) => ~cancelled[wco]
        /\ (wpc = "switch" /\ wpc' = "in_co") => ~cancelled[wco]
        /\ \A c \in Cos : (started[c] /\ ~running[c]) => ~running'[c] ]_vars

\* ------------------------------------------------------------------ C5
\* C5: join.  When the worker has nothing left to do, P's wait(P, Q) has
\* returned Q's return value 42 (P returns it).
C5_JoinReturns ==
    Quiescent => (ctx["A"] = "returned" /\ ret["A"] = 42)

\* ------------------------------------------------------------------ C6
\* C6: stop liveness.  With stopping set, the worker that has finished a
\* drain pass begins no further pass.
C6_StopNoFurtherPass ==
    [][ (stopping /\ wpc = "pass_end") => wpc' # "first" ]_vars

\* ------------------------------------------------------------------ C7
\* C7: ping-pong.  When the worker has nothing left to do, both functions
\* have returned and each coroutine has been entered N times.
C7_PingPongCompletes ==
    Quiescent => \A c \in Cos : ctx[c] = "returned" /\ entries[c] = MaxIter

\* ------------------------------------------------------------------ C8
InvokedAtMostOnce ==
    \A c \in Cos : invoked[c] <= 1 /\ (invoked[c] = 1 => arg_seen[c] = arg[c])

\* C8: the user function of a started coroutine is invoked at most once, with
\* the arg given to start; and exactly once when the coroutine was not
\* cancelled and the worker, not stopped, has nothing left to do.
C8_InvokedOnce ==
    /\ InvokedAtMostOnce
    /\ \A c \in Cos : (Quiescent /\ started[c] /\ ~cancelled[c]) => invoked[c] = 1

\* ------------------------------------------------------------------ C9
\* The number of coroutine_signal(c) calls that are past their enqueue step.
EnqueueDone(c) ==
    posted[c] - Cardinality({t \in Threads : sco[t] = c /\ spc[t] = "enq"})

\* C9: signal is idempotent with respect to enqueueing.  A coroutine occurs
\* at most once in the ready list; and while the worker has not taken a step,
\* a coroutine on which N >= 1 signals went through their enqueue step is on
\* the list exactly once and holds exactly one reference more than the
\* user's.
C9_SignalIdempotent ==
    \A c \in Cos :
        /\ Count(co_list, c) <= 1
        /\ (entries[c] = 0 /\ wco = NULL /\ EnqueueDone(c) >= 1)
           => (Count(co_list, c) = 1 /\ ref_count[c] = 2)

C9_Witness ==
    /\ wco = NULL
    /\ posted["A"] = 1 + MaxSignals
    /\ EnqueueDone("A") = posted["A"]
    /\ co_list = <<"A">>
    /\ ref_count["A"] = 2

\* ----------------------------------------------------------------- C10
\* C10: after cancel and any number of signals, when the user's reference is
\* dropped and the worker has nothing left to do, co is off the ready list
\* and destroyed.
C10_CancelledIsDestroyed ==
    Quiescent => (~Linked("A") /\ freed["A"])

\* ----------------------------------------------------------------- C11
\* c is linked on a list other than as the entry coroutine_thread_stop has
\* just unlinked for its deref.
LinkedAtDelete(c) ==
    \/ InSeq(co_list, c)
    \/ InSeq(stop_list, c) /\ Head(stop_list) # c

\* C11: lifetime safety.  A coroutine is destroyed only when it is off the
\* ready list, the worker holds no walker reference on it and the worker is
\* not executing it or about to access it in the drain loop (the destroying
\* deref is the worker's last access); and a destroyed coroutine is neither
\* linked nor held by the worker.
C11_LifetimeSafety ==
    [][ \A c \in Cos :
          /\ (~freed[c] /\ freed'[c])
             => /\ ~LinkedAtDelete(c)
                /\ wnext # c
                /\ wco = c => wpc = "deref"
          /\ freed'[c] => (~Linked(c)' /\ wco' # c /\ wnext' # c) ]_vars

\* The worker is between dropping its walker reference on A and its last
\* access to A, the user's reference is gone: only the list's keeps A alive.
C11_Witness ==
    /\ wco = "A"
    /\ wpc \in {"dec", "del", "requeue"}
    /\ ref_count["A"] = 1
    /\ ~freed["A"]
    /\ freed["B"]

\* ----------------------------------------------------------------- C12
\* C12: post-state of coroutine_thread_stop when no coroutine_signal call
\* was in progress when stop began or later: the worker has exited (nothing is entered again),
\* the ready list and stop's local list are empty, no coroutine is linked,
\* and every coroutine, its user still holding the creation reference, is
\* alive with exactly that one reference (each spliced entry lost the
\* list's).
C12_StopPostState ==
    (stop_pc = "done" /\ ~stop_conc)
    => /\ wpc = "exited"
       /\ co_list = <<>>
       /\ stop_list = <<>>
       /\ \A c \in Cos : ~Linked(c) /\ ~freed[c] /\ ref_count[c] = 1

\* Stop has returned, undisturbed, after splicing out a coroutine that had
\* been entered.
C12_Witness ==
    /\ stop_pc = "done"
    /\ ~stop_conc
    /\ stop_n = 1
    /\ entries["A"] >= 1
    /\ ref_count["A"] = 1

\* ----------------------------------------------------------------- C13
\* C13: stack-magic guard.  Once a coroutine has overwritten the bottom
\* magic of its stack, no context switch involving it completes: neither
\* its yield back to the worker nor the worker's switch into it (the
\* assertion fires instead).
C13_StackMagicGuard ==
    [][ \A c \in Cos :
          (~stack_ok[c] /\ wco = c)
          => /\ ~(wpc = "in_co" /\ wpc' = "next")
             /\ ~(wpc = "switch" /\ wpc' = "in_co") ]_vars

\* ----------------------------------------------------------------- C14
\* C14: a coroutine with signaled > 0 is linked on the ready list, or some
\* thread is inside coroutine_signal on it between the atomic_inc and the
\* enqueue-if-absent step.
C14_SignaledImpliesEnqueued ==
    \A c \in Cos :
        signaled[c] > 0
        => \/ InSeq(co_list, c)
           \/ \E t \in Threads : spc[t] = "enq" /\ sco[t] = c

\* ----------------------------------------------------------------- C15
\* C15: when thread->signaled is 0, the worker is parked and no thread is
\* inside coroutine_signal, there is no unprocessed wake-up: the ready list
\* is empty and every coroutine has signaled == 0.
C15_NoPendingWhenZero ==
    (tsignaled = 0 /\ wpc = "wait" /\ \A t \in Threads : spc[t] = "none")
    => (co_list = <<>> /\ \A c \in Cos : signaled[c] = 0)

\* ----------------------------------------------------------------- C16
\* References on c held by users: the creation reference, until a user
\* drops it (coroutine_deref by an external thread, or by the connection
\* body).
UserRefs(c) ==
    LET dropped ==
            \/ \E t \in Ext : \E i \in 1..(epc[t] - 1) :
                   prog[t][i].op = "deref" /\ prog[t][i].co = c
            \/ fun[c] = "con" /\ ctx[c] \in {"con_deleted", "returned"}
    IN IF dropped THEN 0 ELSE 1

\* References on c held by the worker's walk: the one on co from the walk
\* that returned it until the next walk drops it, and the one on next_co.
WalkerRefs(c) ==
    (IF wco = c /\ wpc \in {"first_unlock", "check_running", "enter", "switch",
                            "in_co", "next", "next_unlock", "deref_prev"}
     THEN 1 ELSE 0)
    + (IF wnext = c /\ wpc \in {"next_unlock", "deref_prev", "dec", "del",
                                "del_unlock", "deref", "requeue",
                                "requeue_unlock"}
       THEN 1 ELSE 0)

\* The reference owned by the list.
ListRef(c) == IF Linked(c) THEN 1 ELSE 0

\* The list's former reference on a coroutine the worker has unlinked and
\* not yet dereferenced.
UnlinkedRef(c) == IF wco = c /\ wpc \in {"del_unlock", "deref"} THEN 1 ELSE 0

DerefBy(t) ==
    /\ \E c \in Cos : ref_count'[c] < ref_count[c]
    /\ \/ t = Worker /\ (wpc' # wpc \/ ctx' # ctx)
       \/ t \in Ext /\ epc'[t] # epc[t]
       \/ t \in Ext /\ stop_list' # stop_list /\ t = StopCaller

\* C17: locking discipline.  No thread calls coroutine_deref while it holds
\* co_list_lock (so coroutine_delete never spins on a lock its own thread
\* holds), and the worker does not hold co_list_lock when it switches into
\* a coroutine, when a coroutine switches back, or when it parks on the
\* waitq.
C17_LockDiscipline ==
    [][ /\ \A t \in Threads : DerefBy(t) => (lock # t /\ lock' # t)
        /\ bug' # "self_deadlock"
        /\ (wpc = "switch" /\ wpc' = "in_co") => (lock # Worker /\ lock' # Worker)
        /\ (wpc = "in_co" /\ wpc' = "next") => (lock # Worker /\ lock' # Worker)
        /\ wpc' = "wait" => lock' # Worker ]_vars

\* The connection coroutine B has been destroyed by the worker's own
\* coroutine_deref in the drain loop (coroutine_delete took co_list_lock
\* there), and the worker has parked again.
C17_Witness ==
    /\ bug = "none"
    /\ freed["B"]
    /\ wpc = "wait"
    /\ lock = NULL

\* ----------------------------------------------------------------- C18
\* C18: the signal counters never go negative, and a coroutine is never
\* entered more often than it has been signalled.
C18_CountersNonNegative ==
    /\ tsignaled >= 0
    /\ \A c \in Cos : signaled[c] >= 0 /\ entries[c] <= posted[c]

\* ----------------------------------------------------------------- C20
\* C20: no scheduler assertion fires: neither BUG_ON(!co->running) in
\* coroutine_enter nor BUG_ON(list_empty(&co->co_list_entry)) in the drain
\* loop.
C20_NoAssertionFires ==
    bug \notin {"enter_not_running", "del_list_empty", "requeue_list_empty"}

\* ----------------------------------------------------------------- C19
\* The worker begins to process a coroutine: co has just been set, by the
\* first walk of a pass or by co = next_co, and is not NULL.
BeginsProcessing == wpc' = "check_running" /\ wpc # "check_running"

\* The ready list changes only by an append at its tail (a first enqueue or
\* the worker's move-to-tail), by the removal of one entry, or by the
\* splice of coroutine_thread_stop: its order is the order of the appends.
AppendOrderKept ==
    \/ co_list' = co_list
    \/ co_list' = <<>>
    \/ \E c \in Cos :
          \/ co_list' = Append(co_list, c) /\ ~InSeq(co_list, c)
          \/ co_list' = Append(Remove(co_list, c), c) /\ InSeq(co_list, c)
          \/ co_list' = Remove(co_list, c)

\* C19: FIFO scheduling.  The ready list is kept in the order of the
\* appends, and the coroutine the worker begins to process is always the
\* oldest entry of the list: no coroutine appended later is processed before
\* one appended earlier, also when a producer appends a coroutine between
\* the worker's computation of next_co and its re-queue of co.
C19_Fifo ==
    [][ /\ AppendOrderKept
        /\ BeginsProcessing => (co_list' # <<>> /\ wco' = Head(co_list')) ]_vars

\* B was appended while the worker, with next_co == NULL already computed,
\* had not yet re-queued the re-armed A: B is ahead of A in the list.
C19_Witness ==
    /\ bug = "none"
    /\ wco = "A"
    /\ wnext = NULL
    /\ wpc = "requeue_unlock"
    /\ co_list = <<"B", "A">>

====
